---- MODULE Spec2Model ----
(***************************************************************************)
(* A model of `boh artifact` (src/src/artifact.rs): run fans one unit per  *)
(* (region, item) out onto the runtime; a unit with exactly one source is  *)
(* add_tag, every other unit is push_manifest, which fans one task per     *)
(* source out again.  The registries are the environment: they answer the  *)
(* GET and PUT requests the units send, honestly or with a fault.          *)
(*                                                                         *)
(* A request and the handling of its answer, up to the next request of the *)
(* same future, is one step: the futures suspend at network I/O only.      *)
(* scope_and_collect yields the futures' outcomes in spawn order; a future *)
(* that panics ends alone (its JoinHandle yields a JoinError) and the      *)
(* other futures run on.  A PUT that is answered with a fault has stored   *)
(* nothing.  A registry keeps every manifest it was given under its digest *)
(* and moves a tag on a PUT by tag.                                        *)
(***************************************************************************)
EXTENDS Integers, Sequences, FiniteSets, TLC

\* At most this many requests of a run are answered with a fault.
MaxFaults == 1

------------------------------------------------------------------------------
(* Data                                                                     *)

\* Option::None of a repo, of a variant, of a Content-Type header.
NONE == "<none>"

MANIFEST_LIST_MIME == "application/vnd.oci.image.index.v1+json"
MANIFEST_MIME == "application/vnd.oci.image.manifest.v1+json"
DOCKER_MIME == "application/vnd.docker.distribution.manifest.v2+json"

TaggedImage(repo, name, tag) == [repo |-> repo, name |-> name, tag |-> tag]

Item(sources, targets) == [sources |-> sources, targets |-> targets]

Manifests(repo, items) == [repo |-> repo, items |-> items]

\* Byte strings are records; kind tells what document the bytes spell.
NoBytes == [kind |-> "none"]
EmptyBody == [kind |-> "empty"]
TextBody(s) == [kind |-> "text", s |-> s]
BinBody == [kind |-> "binary"]

\* The bytes of an image config: {"architecture":..,"os":..,"variant":..}.
ConfigBytes(arch, os, variant) ==
  [kind |-> "config", architecture |-> arch, os |-> os, variant |-> variant]

\* SHA-256 is taken to be collision free: the digest names the bytes.
calc_digest(data) == [alg |-> "sha256", hex |-> data]

\* The bytes of an image manifest: {"config":{"digest":..},..}, len bytes long.
ManifestBytes(cfgDigest, len) ==
  [kind |-> "manifest", config |-> [digest |-> cfgDigest], len |-> len]

\* manifest_raw.len(): only the source manifests' length is ever taken.
BytesLen(b) == b.len

\* serde_json::from_slice::<OciManifest>: needs an object with config.digest.
OciManifestParses(b) == b.kind = "manifest"

\* serde_json::from_slice::<OciConfig>: architecture and os are mandatory.
OciConfigParses(b) ==
  /\ b.kind = "config"
  /\ b.architecture # NONE
  /\ b.os # NONE

NoErr == [kind |-> "none", msg |-> ""]
Err(kind, msg) == [kind |-> kind, msg |-> msg]

Ok(bytes) == [ok |-> TRUE, bytes |-> bytes, err |-> NoErr]
Fail(e) == [ok |-> FALSE, bytes |-> NoBytes, err |-> e]

------------------------------------------------------------------------------
(* HTTP responses and get_bytes                                             *)

Response(status, ctype, body) ==
  [transport |-> FALSE, status |-> status, ctype |-> ctype, body |-> body]

\* send() failed: no response at all.
TransportFailure ==
  [transport |-> TRUE, status |-> 0, ctype |-> NONE, body |-> NoBytes]

is_success(code) == code >= 200 /\ code <= 299

StatusText(code) ==
  CASE code = 404 -> "404 Not Found"
    [] code = 500 -> "500 Internal Server Error"
    [] code = 502 -> "502 Bad Gateway"
    [] OTHER -> "status"

\* String::from_utf8 of an error body: every body but a binary one is text.
Utf8(body) == body.kind # "binary"

BodyText(body) == IF body.kind = "text" THEN body.s ELSE "<json document>"

get_bytes(res) ==
  IF res.transport THEN Fail(Err("Transport", "error sending request"))
  ELSE IF is_success(res.status) THEN Ok(res.body)
  ELSE IF Utf8(res.body) THEN Fail(Err("Registry", BodyText(res.body)))
  ELSE Fail(Err("Registry", "failed to retrieve error for " \o StatusText(res.status)))

------------------------------------------------------------------------------
(* The job, the regions and what the registries hold at the start           *)

CfgAmd == ConfigBytes("amd64", "linux", NONE)
CfgArm == ConfigBytes("arm64", "linux", "v8")
\* The config the third manifest declares, and what its registry serves.
CfgDeclared == ConfigBytes("riscv64", "linux", NONE)
CfgTampered == ConfigBytes("riscv64", "evil", NONE)

ManAmd == ManifestBytes(calc_digest(CfgAmd), 7)
ManArm == ManifestBytes(calc_digest(CfgArm), 9)
ManBad == ManifestBytes(calc_digest(CfgDeclared), 5)

TagRef(tag) == [tag |-> tag]
DigestRef(digest) == [digest |-> digest]

TagRow(region, repo, name, tag, bytes, ctype) ==
  [region |-> region, repo |-> repo, name |-> name, tag |-> tag,
   bytes |-> bytes, ctype |-> ctype]

ManifestRow(region, repo, name, bytes, ctype) ==
  [region |-> region, repo |-> repo, name |-> name, bytes |-> bytes,
   ctype |-> ctype]

BlobRow(region, repo, name, digest, bytes) ==
  [region |-> region, repo |-> repo, name |-> name, digest |-> digest,
   bytes |-> bytes]

AllRegions == {"r1", "r2"}

\* Region r2 has no arm64 image.
InitTags ==
  {TagRow(r, "ra", "svc", "v1-amd64", ManAmd, DOCKER_MIME) : r \in AllRegions}
    \cup {TagRow("r1", "ra", "svc", "v1-arm64", ManArm, MANIFEST_MIME)}
    \cup {TagRow(r, "ra", "svc", "bad", ManBad, MANIFEST_MIME) : r \in AllRegions}

InitManifests ==
  {ManifestRow(t.region, t.repo, t.name, t.bytes, t.ctype) : t \in InitTags}

InitBlobs ==
  UNION {{BlobRow(r, "ra", "svc", calc_digest(CfgAmd), CfgAmd),
          BlobRow(r, "ra", "svc", calc_digest(CfgArm), CfgArm),
          BlobRow(r, "ra", "svc", calc_digest(CfgDeclared), CfgTampered)}
         : r \in AllRegions}

SrcAmd == TaggedImage(NONE, "svc", "v1-amd64")
SrcArm == TaggedImage(NONE, "svc", "v1-arm64")
SrcBad == TaggedImage(NONE, "svc", "bad")
TarV1 == TaggedImage(NONE, "svc", "v1")
TarProd == TaggedImage(NONE, "svc", "prod")
TarLive == TaggedImage(NONE, "svc", "live")
TarApp == TaggedImage("rb", "app", "v1")
TarSib == TaggedImage(NONE, "web", "v1")

Scenario(regions, repo, items) ==
  [regions |-> regions, to_push |-> Manifests(repo, items)]

\* The runs checked: the command line's regions and the job read from stdin.
Scenarios ==
  { \* an index over two sources, one target in place and one to replicate to
    Scenario(<<"r1">>, "ra", <<Item(<<SrcAmd, SrcArm>>, <<TarV1, TarApp>>)>>),
    \* an index in two regions, its target another name of the same repo
    Scenario(<<"r1", "r2">>, "ra", <<Item(<<SrcAmd, SrcArm>>, <<TarSib>>)>>),
    \* an item with a tampered config blob beside a valid item
    Scenario(<<"r1">>, "ra", <<Item(<<SrcAmd, SrcBad>>, <<TarProd>>),
                               Item(<<SrcAmd, SrcArm>>, <<TarV1>>)>>),
    \* a retag to two targets, in two regions
    Scenario(<<"r1", "r2">>, "ra", <<Item(<<SrcAmd>>, <<TarProd, TarApp>>)>>),
    \* an item without sources beside a retag
    Scenario(<<"r1">>, "ra", <<Item(<<>>, <<TarV1>>),
                               Item(<<SrcArm>>, <<TarProd>>)>>),
    \* a retag without targets beside a retag
    Scenario(<<"r1">>, "ra", <<Item(<<SrcAmd>>, <<>>),
                               Item(<<SrcArm>>, <<TarProd>>)>>),
    \* an index without targets beside a retag of a missing tag
    Scenario(<<"r1">>, "ra", <<Item(<<SrcAmd, SrcArm>>, <<>>),
                               Item(<<TaggedImage(NONE, "svc", "gone")>>, <<TarProd>>)>>),
    \* no default repo: one source and one target name none
    Scenario(<<"r1">>, NONE,
             <<Item(<<SrcAmd, TaggedImage("ra", "svc", "v1-arm64")>>,
                    <<TaggedImage("ra", "svc", "v1")>>),
               Item(<<TaggedImage("ra", "svc", "v1-amd64")>>, <<TarProd>>)>>),
    \* one item's target is the other item's source
    Scenario(<<"r1">>, "ra", <<Item(<<SrcAmd>>, <<TarProd>>),
                               Item(<<TarProd>>, <<TarLive>>)>>),
    \* two items publish to the same tag
    Scenario(<<"r1">>, "ra", <<Item(<<SrcAmd>>, <<TarProd>>),
                               Item(<<SrcArm, SrcBad>>, <<TarProd>>)>>),
    \* two retags in two regions
    Scenario(<<"r1", "r2">>, "ra", <<Item(<<SrcAmd>>, <<TarProd>>),
                                     Item(<<SrcArm>>, <<TarLive>>)>>),
    \* two retags of different images to the same tag
    Scenario(<<"r1">>, "ra", <<Item(<<SrcAmd>>, <<TarProd>>),
                               Item(<<SrcArm>>, <<TarProd>>)>>),
    \* an index to elsewhere, one of its sources with a tampered config blob
    Scenario(<<"r1">>, "ra", <<Item(<<SrcAmd, SrcBad>>, <<TarApp>>)>>),
    \* an index with two targets of one (repo, name) elsewhere
    Scenario(<<"r1">>, "ra", <<Item(<<SrcAmd, SrcArm>>,
                                    <<TarApp, TaggedImage("rb", "app", "v2")>>)>>),
    \* no default repo: the sources of an index name theirs, its target none
    Scenario(<<"r1">>, NONE,
             <<Item(<<TaggedImage("ra", "svc", "v1-amd64"),
                      TaggedImage("ra", "svc", "v1-arm64")>>, <<TarProd>>)>>) }

------------------------------------------------------------------------------
(* State                                                                    *)

VARIABLES
  regions,     \* args.regions
  to_push,     \* the job parsed from stdin
  tags,        \* registries: the manifest each tag names
  manifests,   \* registries: the manifests each (repo, name) holds, by digest
  blobs,       \* registries: the blobs each (repo, name) holds
  units,       \* the futures run has spawned, in spawn order
  run_pc,      \* where run is: "spawn", "await", "done"
  result,      \* what run returned
  log,         \* every request sent so far
  faults       \* how many requests were answered with a fault

vars == <<regions, to_push, tags, manifests, blobs, units, run_pc, result, log, faults>>

NumItems == Len(to_push.items)
\* Mutant: the items are spawned for one region only.
NumUnits_one_region == NumItems

NumUnits == Len(regions) * NumItems

\* Spawn order is region-major: unit u is item ItemOf(u) in region RegionOf(u).
RegionOf(u) == regions[((u - 1) \div NumItems) + 1]
ItemOf(u) == ((u - 1) % NumItems) + 1

Pending == [status |-> "pending", err |-> NoErr]
Succeeded == [status |-> "ok", err |-> NoErr]
Failed(e) == [status |-> "err", err |-> e]
Panicked == [status |-> "panic", err |-> NoErr]

NoDigest == [alg |-> "none", hex |-> NoBytes]
NoEntry == [media_type |-> NONE]

\* What one spawned source future of push_manifest holds.
NewTask(ti) ==
  [ti |-> ti, pc |-> "manifest", src_repo |-> NONE, manifest_raw |-> NoBytes,
   manifest_digest |-> NoDigest, config_digest |-> NoDigest, list |-> NoEntry,
   k |-> 0, result |-> Pending]

\* tp.sources.len() == 1 picks add_tag, anything else push_manifest.
PathOf(tp) == IF Len(tp.sources) = 1 THEN "add_tag" ELSE "push_manifest"

\* Mutant: every unit works on the first region.
NewUnit_first_region(region, item, tp) ==
  [region |-> regions[1], item |-> item, tp |-> tp, path |-> PathOf(tp),
   pc |-> IF PathOf(tp) = "add_tag" THEN "get" ELSE "sources",
   tasks |-> IF PathOf(tp) = "add_tag" THEN <<>>
             ELSE [s \in 1..Len(tp.sources) |-> NewTask(tp.sources[s])],
   finished |-> <<>>,
   k |-> 0, content_type |-> NONE, manifest_raw |-> NoBytes,
   manifest_list |-> NoBytes, outcome |-> Pending]

NewUnit(region, item, tp) ==
  [region |-> region, item |-> item, tp |-> tp, path |-> PathOf(tp),
   pc |-> IF PathOf(tp) = "add_tag" THEN "get" ELSE "sources",
   \* push_manifest spawns one future per source; add_tag spawns none
   tasks |-> IF PathOf(tp) = "add_tag" THEN <<>>
             ELSE [s \in 1..Len(tp.sources) |-> NewTask(tp.sources[s])],
   \* the source futures that are over, in the order they ended
   finished |-> <<>>,
   k |-> 0, content_type |-> NONE, manifest_raw |-> NoBytes,
   manifest_list |-> NoBytes, outcome |-> Pending]

NoResult == [status |-> "pending", err |-> NoErr, unit |-> 0]

Init ==
  /\ \E sc \in Scenarios :
       /\ regions = sc.regions
       /\ to_push = sc.to_push
  /\ tags = InitTags
  /\ manifests = InitManifests
  /\ blobs = InitBlobs
  /\ units = <<>>
  /\ run_pc = "spawn"
  /\ result = NoResult
  /\ log = {}
  /\ faults = 0

\* s.spawn in run: one future per item, region after region.
Spawn ==
  /\ run_pc = "spawn"
  /\ LET u == Len(units) + 1 IN
       /\ units' = Append(units, NewUnit(RegionOf(u), ItemOf(u), to_push.items[ItemOf(u)]))
       /\ run_pc' = IF u = NumUnits THEN "await" ELSE "spawn"
  /\ UNCHANGED <<regions, to_push, tags, manifests, blobs, result, log, faults>>

------------------------------------------------------------------------------
(* The registries: what they answer and what a PUT stores                   *)

TagRows(region, repo, name, tag) ==
  {t \in tags : t.region = region /\ t.repo = repo /\ t.name = name /\ t.tag = tag}

BlobRows(region, repo, name, digest) ==
  {b \in blobs : b.region = region /\ b.repo = repo /\ b.name = name /\ b.digest = digest}

\* GET https://{region}-docker.pkg.dev/v2/{repo}/{name}/manifests/{tag}
GetManifest(region, repo, name, tag) ==
  IF TagRows(region, repo, name, tag) = {}
  THEN Response(404, "application/json", TextBody("MANIFEST_UNKNOWN"))
  ELSE LET t == CHOOSE t \in TagRows(region, repo, name, tag) : TRUE
       IN Response(200, t.ctype, t.bytes)

\* GET https://{region}-docker.pkg.dev/v2/{repo}/{name}/blobs/{digest}
GetBlob(region, repo, name, digest) ==
  IF BlobRows(region, repo, name, digest) = {}
  THEN Response(404, "application/json", TextBody("BLOB_UNKNOWN"))
  ELSE LET b == CHOOSE b \in BlobRows(region, repo, name, digest) : TRUE
       IN Response(200, "application/octet-stream", b.bytes)

\* The answer to a PUT the registry accepted.
Created == Response(201, NONE, EmptyBody)

\* What may go wrong with a GET: no answer, an error status with a text or
\* a binary body, or a good answer that lacks the Content-Type header.
GetFaults(honest) ==
  {TransportFailure,
   Response(500, "application/json", TextBody("internal error")),
   Response(502, NONE, BinBody)}
    \cup (IF is_success(honest.status)
          THEN {Response(honest.status, NONE, honest.body)} ELSE {})

\* What may go wrong with a PUT; a PUT that fails stores nothing.
PutFaults ==
  {TransportFailure,
   Response(500, "application/json", TextBody("internal error")),
   Response(502, NONE, BinBody)}

Answers(honest, faulty) ==
  {[res |-> honest, fault |-> FALSE]}
    \cup (IF faults < MaxFaults THEN {[res |-> f, fault |-> TRUE] : f \in faulty} ELSE {})

Stored(res) == ~res.transport /\ is_success(res.status)

\* Mutant: a registry that drops the manifest a tag named when the tag moves.
PutByTag_dropping(region, repo, name, tag, bytes, ctype) ==
  /\ tags' = (tags \ TagRows(region, repo, name, tag))
               \cup {TagRow(region, repo, name, tag, bytes, ctype)}
  /\ manifests' = (manifests \ {ManifestRow(t.region, t.repo, t.name, t.bytes, t.ctype) :
                                  t \in TagRows(region, repo, name, tag)})
                    \cup {ManifestRow(region, repo, name, bytes, ctype)}

\* PUT .../manifests/{tag}: the tag now names these bytes, held by digest too.
PutByTag(region, repo, name, tag, bytes, ctype) ==
  /\ tags' = (tags \ TagRows(region, repo, name, tag))
               \cup {TagRow(region, repo, name, tag, bytes, ctype)}
  /\ manifests' = manifests \cup {ManifestRow(region, repo, name, bytes, ctype)}

\* PUT .../manifests/{digest}: the bytes are held by digest, no tag moves.
PutByDigest(region, repo, name, bytes, ctype) ==
  /\ tags' = tags
  /\ manifests' = manifests \cup {ManifestRow(region, repo, name, bytes, ctype)}

\* PUT .../manifests/{reference}: the registry tells a tag from a digest.
Put(region, repo, name, ref, bytes, ctype) ==
  IF "tag" \in DOMAIN ref
  THEN PutByTag(region, repo, name, ref.tag, bytes, ctype)
  ELSE PutByDigest(region, repo, name, bytes, ctype)

\* The requests are numbered per future: unit u's source task s (0: the unit).
ReqNo(u, s) == Cardinality({e \in log : e.unit = u /\ e.source = s}) + 1

Request(u, s, verb, what, region, repo, name, ref, body, ctype, res) ==
  [unit |-> u, source |-> s, n |-> ReqNo(u, s), verb |-> verb, what |-> what,
   region |-> region,
   repo |-> repo, name |-> name, ref |-> ref, body |-> body, ctype |-> ctype,
   res |-> res, stored |-> (verb = "PUT" /\ Stored(res))]

Sent(a, req) ==
  /\ log' = log \cup {req}
  /\ faults' = faults + (IF a.fault THEN 1 ELSE 0)

------------------------------------------------------------------------------
(* add_tag                                                                  *)

\* Mutant: a coordinate without a repo falls back to a built-in repo when
\* the job names none.
resolve_fallback(own, repo) ==
  IF own # NONE THEN own ELSE IF repo # NONE THEN repo ELSE "ra"

\* ti.repo.as_ref().or(repo.as_ref()): NONE when neither is set.
resolve(own, repo) == IF own # NONE THEN own ELSE repo

Finish(unit, outcome) == [unit EXCEPT !.pc = "done", !.outcome = outcome]

\* tp.sources.pop() and tp.targets.pop(): the last element of each.
PopSource(tp) == tp.sources[Len(tp.sources)]
PopTarget(tp) == tp.targets[Len(tp.targets)]

\* Mutant: a response without a Content-Type is taken for an OCI manifest.
add_tag_response_default_type(unit, res) ==
  IF res.transport
  THEN Finish(unit, Failed(Err("Transport", "error sending request")))
  ELSE IF ~is_success(res.status)
  THEN Finish(unit, Failed(Err("Status", StatusText(res.status))))
  ELSE [unit EXCEPT !.pc = "put",
                    !.content_type = IF res.ctype = NONE THEN MANIFEST_MIME ELSE res.ctype,
                    !.manifest_raw = res.body]

\* Mutant: the PUT declares the OCI manifest type whatever the source's
\* response declared.
add_tag_response_rederived(unit, res) ==
  IF res.transport
  THEN Finish(unit, Failed(Err("Transport", "error sending request")))
  ELSE IF res.ctype = NONE
  THEN Finish(unit, Failed(Err("NoContentType", "couldn't extract content type")))
  ELSE IF ~is_success(res.status)
  THEN Finish(unit, Failed(Err("Status", StatusText(res.status))))
  ELSE [unit EXCEPT !.pc = "put", !.content_type = MANIFEST_MIME, !.manifest_raw = res.body]

\* add_tag from the response to its GET up to the PUT it sends next.
add_tag_response(unit, res) ==
  IF res.transport
  THEN Finish(unit, Failed(Err("Transport", "error sending request")))
  ELSE IF res.ctype = NONE
  THEN Finish(unit, Failed(Err("NoContentType", "couldn't extract content type")))
  ELSE IF ~is_success(res.status)
  THEN Finish(unit, Failed(Err("Status", StatusText(res.status))))
  ELSE [unit EXCEPT !.pc = "put", !.content_type = res.ctype, !.manifest_raw = res.body]

\* The spawned future of run up to the response to add_tag's GET.
AddTagGet(u) ==
  /\ u \in DOMAIN units
  /\ units[u].path = "add_tag"
  /\ units[u].pc = "get"
  /\ LET unit == units[u]
         tp == unit.tp
     IN IF Len(tp.targets) = 0
        THEN \* tp.targets.pop().unwrap() panics
             /\ units' = [units EXCEPT ![u] = Finish(unit, Panicked)]
             /\ UNCHANGED <<tags, manifests, log, faults>>
        ELSE LET source == PopSource(tp)
                 src_repo == resolve(source.repo, to_push.repo)
                 tar_repo == resolve(PopTarget(tp).repo, to_push.repo)
             IN IF src_repo = NONE
                THEN /\ units' = [units EXCEPT ![u] =
                            Finish(unit, Failed(Err("Config", "source repo not set")))]
                     /\ UNCHANGED <<tags, manifests, log, faults>>
                ELSE IF tar_repo = NONE
                THEN /\ units' = [units EXCEPT ![u] =
                            Finish(unit, Failed(Err("Config", "target repo not set")))]
                     /\ UNCHANGED <<tags, manifests, log, faults>>
                ELSE LET honest == GetManifest(unit.region, src_repo, source.name, source.tag)
                     IN \E a \in Answers(honest, GetFaults(honest)) :
                          /\ units' = [units EXCEPT ![u] = add_tag_response(unit, a.res)]
                          /\ Sent(a, Request(u, 0, "GET", "manifests", unit.region, src_repo,
                                             source.name, TagRef(source.tag), NoBytes, NONE, a.res))
                          /\ UNCHANGED <<tags, manifests>>
  /\ UNCHANGED <<regions, to_push, blobs, run_pc, result>>

\* add_tag's PUT of the source's bytes under the target's tag.
AddTagPut(u) ==
  /\ u \in DOMAIN units
  /\ units[u].path = "add_tag"
  /\ units[u].pc = "put"
  /\ LET unit == units[u]
         target == PopTarget(unit.tp)
         tar_repo == resolve(target.repo, to_push.repo)
     IN \E a \in Answers(Created, PutFaults) :
          LET r == get_bytes(a.res) IN
          /\ units' = [units EXCEPT ![u] =
                 Finish(unit, IF r.ok THEN Succeeded ELSE Failed(r.err))]
          /\ IF Stored(a.res)
             THEN PutByTag(unit.region, tar_repo, target.name, target.tag,
                           unit.manifest_raw, unit.content_type)
             ELSE UNCHANGED <<tags, manifests>>
          /\ Sent(a, Request(u, 0, "PUT", "manifests", unit.region, tar_repo, target.name,
                             TagRef(target.tag), unit.manifest_raw, unit.content_type, a.res))
  /\ UNCHANGED <<regions, to_push, blobs, run_pc, result>>

------------------------------------------------------------------------------
(* push_manifest: the source futures                                        *)

TaskDone(task, outcome) == [task EXCEPT !.pc = "done", !.result = outcome]

\* Mutant: the copy is made to every target.
needs_copy_always(tar_repo, src_repo, tar_name, src_name) == TRUE

\* Mutant: the copy is made only when repo and name both differ.
needs_copy_both(tar_repo, src_repo, tar_name, src_name) ==
  tar_repo # src_repo /\ tar_name # src_name

\* tar_repo != src_repo || tar_name != ti.name
needs_copy(tar_repo, src_repo, tar_name, src_name) ==
  tar_repo # src_repo \/ tar_name # src_name

\* Mutant: the entry names the digest the manifest declares for its config.
OciManifestListManifest_config(manifest_raw, manifest_digest, config) ==
  [media_type |-> MANIFEST_MIME,
   digest |-> manifest_raw.config.digest,
   size |-> BytesLen(manifest_raw),
   platform |-> [architecture |-> config.architecture, os |-> config.os,
                 variant |-> config.variant]]

OciManifestListManifest(manifest_raw, manifest_digest, config) ==
  [media_type |-> MANIFEST_MIME,
   digest |-> manifest_digest,
   size |-> BytesLen(manifest_raw),
   platform |-> [architecture |-> config.architecture, os |-> config.os,
                 variant |-> config.variant]]

\* The loop over the targets from target k on, up to the next PUT it sends.
RECURSIVE replicate_from(_, _, _, _)
replicate_from(task, targets, repo, k) ==
  IF k > Len(targets) THEN TaskDone(task, Succeeded)
  ELSE LET tar_repo == resolve(targets[k].repo, repo) IN
       IF tar_repo = NONE
       THEN TaskDone(task, Failed(Err("Config", "target repo not set")))
       ELSE IF needs_copy(tar_repo, task.src_repo, targets[k].name, task.ti.name)
       THEN [task EXCEPT !.pc = "replicate", !.k = k]
       ELSE replicate_from(task, targets, repo, k + 1)

\* From the response to the manifest GET up to the blob GET.
source_manifest_response(task, src_repo, res) ==
  LET r == get_bytes(res) IN
  IF ~r.ok THEN TaskDone(task, Failed(r.err))
  ELSE IF ~OciManifestParses(r.bytes)
  THEN TaskDone(task, Failed(Err("Parse", "manifest")))
  ELSE [task EXCEPT !.pc = "config", !.src_repo = src_repo,
                    !.manifest_raw = r.bytes,
                    !.manifest_digest = calc_digest(r.bytes),
                    !.config_digest = r.bytes.config.digest]

\* Mutant: the config blob is used without comparing digests.
config_unverified(config_raw, declared) == TRUE

\* anyhow::ensure!(config_digest == manifest.config.digest, ..)
config_verified(config_raw, declared) == calc_digest(config_raw) = declared

\* Mutant: a config blob that fails the digest check does not stop the
\* source future.
source_config_response_unchecked(task, targets, repo, res) ==
  LET r == get_bytes(res) IN
  IF ~r.ok THEN TaskDone(task, Failed(r.err))
  ELSE IF ~OciConfigParses(r.bytes)
  THEN TaskDone(task, Failed(Err("Parse", "config")))
  ELSE replicate_from(
         [task EXCEPT !.list = OciManifestListManifest(task.manifest_raw,
                                                       task.manifest_digest, r.bytes)],
         targets, repo, 1)

\* From the response to the blob GET up to the first replicating PUT.
source_config_response(task, targets, repo, res) ==
  LET r == get_bytes(res) IN
  IF ~r.ok THEN TaskDone(task, Failed(r.err))
  ELSE IF ~config_verified(r.bytes, task.config_digest)
  THEN TaskDone(task, Failed(Err("DigestMismatch", "config digest does not match")))
  ELSE IF ~OciConfigParses(r.bytes)
  THEN TaskDone(task, Failed(Err("Parse", "config")))
  ELSE replicate_from(
         [task EXCEPT !.list = OciManifestListManifest(task.manifest_raw,
                                                       task.manifest_digest, r.bytes)],
         targets, repo, 1)

\* Mutant: a replicating PUT that failed is sent again.
source_replicate_response_retry(task, targets, repo, res) ==
  LET r == get_bytes(res) IN
  IF ~r.ok THEN task
  ELSE replicate_from(task, targets, repo, task.k + 1)

\* From the response to a replicating PUT up to the next one.
source_replicate_response(task, targets, repo, res) ==
  LET r == get_bytes(res) IN
  IF ~r.ok THEN TaskDone(task, Failed(r.err))
  ELSE replicate_from(task, targets, repo, task.k + 1)

\* Source future s of the unit has come to the state task.
Settle(unit, s, task) ==
  [unit EXCEPT !.tasks[s] = task,
               !.finished = IF task.pc = "done" THEN Append(@, s) ELSE @]

\* Mutant: the copy is PUT under the target's tag.
replicate_ref_tag(task, target) == TagRef(target.tag)

\* .../manifests/{manifest_digest}: the copy is addressed by the digest
\* computed over the bytes fetched.
replicate_ref(task, target) == DigestRef(task.manifest_digest)

InSources(u, s) ==
  /\ u \in DOMAIN units
  /\ units[u].path = "push_manifest"
  /\ units[u].pc = "sources"
  /\ s \in DOMAIN units[u].tasks

SourceManifest(u, s) ==
  /\ InSources(u, s)
  /\ units[u].tasks[s].pc = "manifest"
  /\ LET unit == units[u]
         task == unit.tasks[s]
         src_repo == resolve(task.ti.repo, to_push.repo)
     IN IF src_repo = NONE
        THEN /\ units' = [units EXCEPT ![u] = Settle(unit, s,
                    TaskDone(task, Failed(Err("Config", "source repo not set"))))]
             /\ UNCHANGED <<log, faults>>
        ELSE LET honest == GetManifest(unit.region, src_repo, task.ti.name, task.ti.tag)
             IN \E a \in Answers(honest, GetFaults(honest)) :
                  /\ units' = [units EXCEPT ![u] = Settle(unit, s,
                         source_manifest_response(task, src_repo, a.res))]
                  /\ Sent(a, Request(u, s, "GET", "manifests", unit.region, src_repo,
                                     task.ti.name, TagRef(task.ti.tag), NoBytes, NONE, a.res))
  /\ UNCHANGED <<regions, to_push, tags, manifests, blobs, run_pc, result>>

SourceConfig(u, s) ==
  /\ InSources(u, s)
  /\ units[u].tasks[s].pc = "config"
  /\ LET unit == units[u]
         task == unit.tasks[s]
         honest == GetBlob(unit.region, task.src_repo, task.ti.name, task.config_digest)
     IN \E a \in Answers(honest, GetFaults(honest)) :
          /\ units' = [units EXCEPT ![u] = Settle(unit, s,
                 source_config_response(task, unit.tp.targets, to_push.repo, a.res))]
          /\ Sent(a, Request(u, s, "GET", "blobs", unit.region, task.src_repo,
                             task.ti.name, DigestRef(task.config_digest), NoBytes, NONE, a.res))
  /\ UNCHANGED <<regions, to_push, tags, manifests, blobs, run_pc, result>>

SourceReplicate(u, s) ==
  /\ InSources(u, s)
  /\ units[u].tasks[s].pc = "replicate"
  /\ LET unit == units[u]
         task == unit.tasks[s]
         target == unit.tp.targets[task.k]
         tar_repo == resolve(target.repo, to_push.repo)
     IN \E a \in Answers(Created, PutFaults) :
          /\ units' = [units EXCEPT ![u] = Settle(unit, s,
                 source_replicate_response(task, unit.tp.targets, to_push.repo, a.res))]
          /\ IF Stored(a.res)
             THEN Put(unit.region, tar_repo, target.name, replicate_ref(task, target),
                      task.manifest_raw, MANIFEST_MIME)
             ELSE UNCHANGED <<tags, manifests>>
          /\ Sent(a, Request(u, s, "PUT", "manifests", unit.region, tar_repo, target.name,
                             replicate_ref(task, target), task.manifest_raw,
                             MANIFEST_MIME, a.res))
  /\ UNCHANGED <<regions, to_push, blobs, run_pc, result>>

------------------------------------------------------------------------------
(* push_manifest after its scope, and run after its scope                   *)

\* The position of the first outcome that is not Ok, 0 when all are Ok.
FirstBad(outcomes) ==
  IF \A i \in DOMAIN outcomes : outcomes[i].status = "ok" THEN 0
  ELSE CHOOSE i \in DOMAIN outcomes :
         /\ outcomes[i].status # "ok"
         /\ \A j \in DOMAIN outcomes : j < i => outcomes[j].status = "ok"

\* Mutant: only the outcome of the future spawned last is looked at.
collect_last(outcomes) ==
  IF outcomes = <<>> THEN [status |-> "ok", err |-> NoErr, unit |-> 0]
  ELSE [status |-> outcomes[Len(outcomes)].status,
        err |-> outcomes[Len(outcomes)].err,
        unit |-> IF outcomes[Len(outcomes)].status = "ok" THEN 0 ELSE Len(outcomes)]

\* .into_iter().map(|m| m.unwrap()).collect::<anyhow::Result<Vec<_>>>():
\* the outcomes are taken in spawn order up to the first that is not Ok;
\* unwrap panics on a future that panicked, an Err ends the collection.
collect(outcomes) ==
  LET i == FirstBad(outcomes) IN
  IF i = 0 THEN [status |-> "ok", err |-> NoErr, unit |-> 0]
  ELSE [status |-> outcomes[i].status, err |-> outcomes[i].err, unit |-> i]

OciManifestList(entries) ==
  [kind |-> "index", schema_version |-> 2, media_type |-> MANIFEST_LIST_MIME,
   manifests |-> entries]

\* Mutant: the list is published under the first target only.
publish_from_first(unit, repo, k) ==
  IF k > Len(unit.tp.targets) \/ k > 1 THEN Finish(unit, Succeeded)
  ELSE IF resolve(unit.tp.targets[k].repo, repo) = NONE
  THEN Finish(unit, Failed(Err("Config", "target repo not set")))
  ELSE [unit EXCEPT !.pc = "publish", !.k = k]

\* The loop over the targets from target k on, up to the PUT it sends next.
publish_from(unit, repo, k) ==
  IF k > Len(unit.tp.targets) THEN Finish(unit, Succeeded)
  ELSE IF resolve(unit.tp.targets[k].repo, repo) = NONE
  THEN Finish(unit, Failed(Err("Config", "target repo not set")))
  ELSE [unit EXCEPT !.pc = "publish", !.k = k]

AllSourcesDone(unit) == \A s \in DOMAIN unit.tasks : unit.tasks[s].pc = "done"

\* Mutant: the list is built from whatever entries there are and published
\* although a source future failed.
joined_lenient(unit, repo) ==
  publish_from(
    [unit EXCEPT !.manifest_list =
       OciManifestList([s \in DOMAIN unit.tasks |-> unit.tasks[s].list])],
    repo, 1)

\* Mutant: the scope yields the futures in the order they ended.
scope_and_collect_unordered(unit) ==
  [i \in 1..Len(unit.finished) |-> unit.tasks[unit.finished[i]]]

\* What scope_and_collect yields: the source futures in the order they were
\* spawned, which is the order of tp.sources.
scope_and_collect(unit) == [s \in DOMAIN unit.tasks |-> unit.tasks[s]]

\* push_manifest once scope_and_collect has returned: the source futures'
\* outcomes are collected and the manifest list is serialised.
joined(unit, repo) ==
  LET outs == scope_and_collect(unit)
      c == collect([i \in DOMAIN outs |-> outs[i].result])
  IN IF c.status # "ok" THEN Finish(unit, Failed(c.err))
     ELSE publish_from(
            [unit EXCEPT !.manifest_list =
               OciManifestList([i \in DOMAIN outs |-> outs[i].list])],
            repo, 1)

\* Mutant: the scope returns as soon as one source future has failed.
scope_cancels(unit) ==
  \/ AllSourcesDone(unit)
  \/ \E s \in DOMAIN unit.tasks : unit.tasks[s].result.status = "err"

\* scope_and_collect returns only when every spawned future has finished.
scope_finished(unit) == AllSourcesDone(unit)

Join(u) ==
  /\ u \in DOMAIN units
  /\ units[u].path = "push_manifest"
  /\ units[u].pc = "sources"
  /\ scope_finished(units[u])
  /\ units' = [units EXCEPT ![u] = joined(units[u], to_push.repo)]
  /\ UNCHANGED <<regions, to_push, tags, manifests, blobs, run_pc, result, log, faults>>

\* Mutant: a PUT that failed is passed over unless it was the last.
publish_response_goes_on(unit, repo, res) ==
  LET r == get_bytes(res) IN
  IF ~r.ok /\ unit.k = Len(unit.tp.targets) THEN Finish(unit, Failed(r.err))
  ELSE publish_from(unit, repo, unit.k + 1)

\* Mutant: the answer to the PUT is not looked at.
publish_response_ignored(unit, repo, res) == publish_from(unit, repo, unit.k + 1)

publish_response(unit, repo, res) ==
  LET r == get_bytes(res) IN
  IF ~r.ok THEN Finish(unit, Failed(r.err))
  ELSE publish_from(unit, repo, unit.k + 1)

Publish(u) ==
  /\ u \in DOMAIN units
  /\ units[u].path = "push_manifest"
  /\ units[u].pc = "publish"
  /\ LET unit == units[u]
         target == unit.tp.targets[unit.k]
         tar_repo == resolve(target.repo, to_push.repo)
     IN \E a \in Answers(Created, PutFaults) :
          /\ units' = [units EXCEPT ![u] = publish_response(unit, to_push.repo, a.res)]
          /\ IF Stored(a.res)
             THEN PutByTag(unit.region, tar_repo, target.name, target.tag,
                           unit.manifest_list, MANIFEST_LIST_MIME)
             ELSE UNCHANGED <<tags, manifests>>
          /\ Sent(a, Request(u, 0, "PUT", "manifests", unit.region, tar_repo, target.name,
                             TagRef(target.tag), unit.manifest_list, MANIFEST_LIST_MIME, a.res))
  /\ UNCHANGED <<regions, to_push, blobs, run_pc, result>>

\* Mutant: the scope returns as soon as one future has finished.
any_finished(us) == \E u \in DOMAIN us : us[u].pc = "done"

\* run's scope_and_collect returns only when every spawned future has finished.
all_finished(us) == \A u \in DOMAIN us : us[u].pc = "done"

\* run once its scope has returned: the units' outcomes are collected.
Collect ==
  /\ run_pc = "await"
  /\ all_finished(units)
  /\ result' = collect([u \in DOMAIN units |-> units[u].outcome])
  /\ run_pc' = "done"
  /\ UNCHANGED <<regions, to_push, tags, manifests, blobs, units, log, faults>>

Next ==
  \/ Spawn
  \/ \E u \in DOMAIN units : AddTagGet(u)
  \/ \E u \in DOMAIN units : AddTagPut(u)
  \/ \E u \in DOMAIN units : \E s \in DOMAIN units[u].tasks : SourceManifest(u, s)
  \/ \E u \in DOMAIN units : \E s \in DOMAIN units[u].tasks : SourceConfig(u, s)
  \/ \E u \in DOMAIN units : \E s \in DOMAIN units[u].tasks : SourceReplicate(u, s)
  \/ \E u \in DOMAIN units : Join(u)
  \/ \E u \in DOMAIN units : Publish(u)
  \/ Collect

Spec == Init /\ [][Next]_vars

------------------------------------------------------------------------------
(* What the log and the registries tell                                     *)

Answered(e) == ~e.res.transport /\ is_success(e.res.status)

\* The PUTs of a manifest list that push_manifest of unit u has sent.
IndexPuts(u) ==
  {e \in log : e.unit = u /\ e.source = 0 /\ e.verb = "PUT" /\ e.body.kind = "index"}

\* The PUTs that replicate a source manifest by digest.
ReplicatePuts(u, s) ==
  {e \in log : e.unit = u /\ e.source = s /\ e.verb = "PUT"}

HoldsDigest(region, repo, name, digest) ==
  \E m \in manifests :
    /\ m.region = region /\ m.repo = repo /\ m.name = name
    /\ calc_digest(m.bytes) = digest

IsIndexUnit(u) == u \in DOMAIN units /\ units[u].path = "push_manifest"
IsRetagUnit(u) == u \in DOMAIN units /\ units[u].path = "add_tag"

\* A blob GET whose answer does not hash to the digest asked for.
Tampered(e) ==
  /\ e.what = "blobs"
  /\ Answered(e)
  /\ calc_digest(e.res.body) # e.ref.digest

SourceFailed(u) ==
  \E s \in DOMAIN units[u].tasks : units[u].tasks[s].result.status = "err"

------------------------------------------------------------------------------
(* C1: every manifest list the index path has stored under a target names  *)
(* only digests that the target's (repo, name) of that registry holds:      *)
(* the source future replicated the manifest there by digest before, or     *)
(* the source's (repo, name) is the target's.                               *)
C1_IndexReferencesPresent ==
  \A u \in DOMAIN units : \A e \in IndexPuts(u) :
    e.stored =>
      \A i \in DOMAIN e.body.manifests :
        LET d == e.body.manifests[i].digest
            src == units[u].tp.sources[i]
        IN /\ HoldsDigest(e.region, e.repo, e.name, d)
           /\ \/ \E p \in ReplicatePuts(u, i) :
                   /\ p.stored
                   /\ p.region = e.region /\ p.repo = e.repo /\ p.name = e.name
                   /\ p.ref = DigestRef(d)
                   /\ calc_digest(p.body) = d
              \/ /\ resolve(src.repo, to_push.repo) = e.repo
                 /\ src.name = e.name

\* One item has stored its two-entry list under a target of another repo,
\* where the manifests were replicated to, and under a target in place.
C1_Witness ==
  /\ \E u \in DOMAIN units : \E e \in IndexPuts(u) :
       e.stored /\ Len(e.body.manifests) = 2 /\ e.repo = "rb" /\ e.name = "app"
  /\ \E u \in DOMAIN units : \E e \in IndexPuts(u) :
       e.stored /\ Len(e.body.manifests) = 2 /\ e.name = "svc"

\* An answer a source future of push_manifest goes on with.
CleanAnswer(e) ==
  /\ Answered(e)
  /\ e.verb = "GET" /\ e.what = "manifests" => OciManifestParses(e.res.body)
  /\ e.what = "blobs" => ~Tampered(e) /\ OciConfigParses(e.res.body)

\* An index item that resolves and whose requests were all answered well.
CleanIndexUnit(v) ==
  /\ IsIndexUnit(v)
  /\ Len(units[v].tp.sources) >= 2
  /\ \A e \in log : e.unit = v => CleanAnswer(e)
  /\ \A s \in DOMAIN units[v].tp.sources :
       resolve(units[v].tp.sources[s].repo, to_push.repo) # NONE
  /\ \A k \in DOMAIN units[v].tp.targets :
       resolve(units[v].tp.targets[k].repo, to_push.repo) # NONE

\* The unit has stored its list under the tag of every target.
PublishedEverywhere(v) ==
  \A k \in DOMAIN units[v].tp.targets :
    \E e \in IndexPuts(v) :
      /\ e.stored
      /\ e.repo = resolve(units[v].tp.targets[k].repo, to_push.repo)
      /\ e.name = units[v].tp.targets[k].name
      /\ e.ref = TagRef(units[v].tp.targets[k].tag)

(* C2: a source whose config blob does not hash to the digest its manifest  *)
(* declares fails with a digest mismatch, its item fails and publishes no   *)
(* list; an index item of the same run whose requests were all answered     *)
(* with valid content still publishes its list under every target.          *)
C2_DigestMismatchFailsItem ==
  /\ \A e \in log :
       Tampered(e) =>
         LET task == units[e.unit].tasks[e.source] IN
         /\ task.pc = "done"
         /\ task.result.status = "err"
         /\ task.result.err.kind = "DigestMismatch"
         /\ IndexPuts(e.unit) = {}
         /\ units[e.unit].pc = "done" => units[e.unit].outcome.status = "err"
  /\ \A v \in DOMAIN units :
       CleanIndexUnit(v) /\ units[v].pc = "done" =>
         /\ units[v].outcome.status = "ok"
         /\ PublishedEverywhere(v)

\* The run is over: one item failed on a tampered blob, a sibling published.
C2_Witness ==
  /\ run_pc = "done"
  /\ \E e \in log :
       /\ Tampered(e)
       /\ units[e.unit].outcome.status = "err"
       /\ \E v \in DOMAIN units :
            /\ v # e.unit
            /\ units[v].region = units[e.unit].region
            /\ CleanIndexUnit(v)
            /\ units[v].outcome.status = "ok"
            /\ units[v].tp.targets # <<>>
            /\ PublishedEverywhere(v)

(* C3: an index item sends no PUT of its list before every one of its       *)
(* source futures has finished, and none at all when one of them failed;    *)
(* a target tag of such an item then holds what it held at the start unless *)
(* another unit has written it.                                             *)
C3_NoPublishBeforeAllSources ==
  \A u \in DOMAIN units :
    IsIndexUnit(u) =>
      /\ IndexPuts(u) # {} =>
           \A s \in DOMAIN units[u].tasks :
             units[u].tasks[s].pc = "done" /\ units[u].tasks[s].result.status = "ok"
      /\ SourceFailed(u) =>
           /\ IndexPuts(u) = {}
           /\ \A k \in DOMAIN units[u].tp.targets :
                LET t == units[u].tp.targets[k]
                    tar_repo == resolve(t.repo, to_push.repo)
                IN \/ TagRows(units[u].region, tar_repo, t.name, t.tag)
                        = {r \in InitTags : r.region = units[u].region /\ r.repo = tar_repo
                                            /\ r.name = t.name /\ r.tag = t.tag}
                   \/ \E e \in log :
                        /\ e.unit # u /\ e.stored /\ e.region = units[u].region
                        /\ e.repo = tar_repo /\ e.name = t.name /\ e.ref = TagRef(t.tag)

\* An item is over with one source failed, the other done, nothing published.
C3_Witness ==
  \E u \in DOMAIN units :
    /\ IsIndexUnit(u)
    /\ units[u].pc = "done"
    /\ units[u].outcome.status = "err"
    /\ \E s \in DOMAIN units[u].tasks : units[u].tasks[s].result.status = "err"
    /\ \E s \in DOMAIN units[u].tasks : units[u].tasks[s].result.status = "ok"
    /\ units[u].tp.targets # <<>>
    /\ IndexPuts(u) = {}

(* C4: a retag that succeeded has stored the source's bytes, with the       *)
(* source's content type, under the tag of every one of its targets         *)
(* (stated for the runs in which no request was answered with a fault).     *)
C4_RetagEveryTarget ==
  \A u \in DOMAIN units :
    faults = 0 /\ IsRetagUnit(u) /\ units[u].outcome.status = "ok" =>
      \A k \in DOMAIN units[u].tp.targets :
        LET t == units[u].tp.targets[k] IN
        \E e \in log :
          /\ e.unit = u /\ e.stored /\ e.region = units[u].region
          /\ e.repo = resolve(t.repo, to_push.repo) /\ e.name = t.name
          /\ e.ref = TagRef(t.tag)
          /\ e.body = units[u].manifest_raw /\ e.ctype = units[u].content_type

------------------------------------------------------------------------------
(* The steps of one unit, and what its own requests say of its outcome      *)

TaskStep(u, s) == SourceManifest(u, s) \/ SourceConfig(u, s) \/ SourceReplicate(u, s)

UnitStep(u) ==
  \/ AddTagGet(u)
  \/ AddTagPut(u)
  \/ \E s \in DOMAIN units[u].tasks : TaskStep(u, s)
  \/ Join(u)
  \/ Publish(u)

UnitFailed(u) == units[u].outcome.status \in {"err", "panic"}

\* An answer that makes the unit that asked fail.
BadAnswer(e) ==
  IF IsRetagUnit(e.unit)
  THEN IF e.verb = "GET" THEN ~Answered(e) \/ e.res.ctype = NONE ELSE ~Answered(e)
  ELSE ~CleanAnswer(e)

\* A coordinate the unit resolves names no repo and there is no default.
NoRepo(u) ==
  LET tp == units[u].tp IN
  IF IsRetagUnit(u)
  THEN /\ tp.targets # <<>>
       /\ \/ resolve(PopSource(tp).repo, to_push.repo) = NONE
          \/ resolve(PopTarget(tp).repo, to_push.repo) = NONE
  ELSE \/ \E s \in DOMAIN tp.sources : resolve(tp.sources[s].repo, to_push.repo) = NONE
       \/ \E k \in DOMAIN tp.targets : resolve(tp.targets[k].repo, to_push.repo) = NONE

OwnSuccess(u) ==
  /\ ~(IsRetagUnit(u) /\ units[u].tp.targets = <<>>)
  /\ ~NoRepo(u)
  /\ \A e \in log : e.unit = u => ~BadAnswer(e)

\* A unit's outcome is decided by its own item and the answers to its own
\* requests; a unit that is not over can step whatever became of the others.
C5_OutcomeIsOwn ==
  \A u \in DOMAIN units :
    /\ units[u].pc = "done" => (units[u].outcome.status = "ok" <=> OwnSuccess(u))
    /\ units[u].pc # "done" => ENABLED UnitStep(u)

\* A step changes one unit only.
C5_OneUnitPerStep ==
  \A u \in DOMAIN units : \A v \in DOMAIN units :
    u # v /\ units'[u] # units[u] => units'[v] = units[v]

C6_Barrier ==
  /\ run_pc = "done" =>
       /\ Len(units) = NumUnits
       /\ \A u \in DOMAIN units :
            /\ units[u].pc = "done"
            /\ \A s \in DOMAIN units[u].tasks : units[u].tasks[s].pc = "done"
  /\ \A u \in DOMAIN units :
       /\ units[u].pc # "sources" =>
            \A s \in DOMAIN units[u].tasks : units[u].tasks[s].pc = "done"
       /\ units[u].pc = "sources" =>
            \A s \in DOMAIN units[u].tasks :
              units[u].tasks[s].pc # "done" => ENABLED TaskStep(u, s)
       /\ units[u].pc # "done" => ENABLED UnitStep(u)

\* A source future has failed while its sibling is about to replicate, and
\* run has not returned.
C6_Witness ==
  /\ run_pc = "await"
  /\ \E u \in DOMAIN units :
       /\ IsIndexUnit(u)
       /\ \E s \in DOMAIN units[u].tasks : units[u].tasks[s].result.status = "err"
       /\ \E s \in DOMAIN units[u].tasks : units[u].tasks[s].pc = "replicate"

(* C7: run returns Ok exactly when every unit succeeded; with a failed      *)
(* unit it returns an error or panics.                                      *)
C7_ResultIsAggregate ==
  run_pc = "done" =>
    /\ result.status \in {"ok", "err", "panic"}
    /\ result.status = "ok" <=> \A u \in 1..NumUnits : units[u].outcome.status = "ok"

\* run has returned an error although a unit succeeded.
C7_Witness ==
  /\ run_pc = "done"
  /\ result.status = "err"
  /\ \E u \in DOMAIN units : units[u].outcome.status = "ok"
  /\ \E u \in DOMAIN units : units[u].outcome.status = "err"

(* C8: what run returns carries the error of every unit that failed         *)
(* (stated for the runs without a fault in which no unit panicked).         *)
C8_EveryErrorReported ==
  run_pc = "done" /\ faults = 0 /\ (\A u \in DOMAIN units : units[u].outcome.status # "panic") =>
    \A u \in DOMAIN units :
      units[u].outcome.status = "err" =>
        result.status = "err" /\ result.err = units[u].outcome.err

(* C9: an item without sources sends no request and fails with a            *)
(* configuration error (stated for the runs without a fault).               *)
C9_ZeroSourcesRejected ==
  \A u \in DOMAIN units :
    faults = 0 /\ units[u].tp.sources = <<>> =>
      /\ \A e \in log : e.unit # u
      /\ units[u].pc = "done" =>
           units[u].outcome.status = "err" /\ units[u].outcome.err.kind = "Config"

(* C10: an item without targets sends no request and fails with a           *)
(* configuration error like any other unit; run does not panic over it      *)
(* (stated for the runs without a fault).                                   *)
C10_ZeroTargetsRejected ==
  \A u \in DOMAIN units :
    faults = 0 /\ units[u].tp.targets = <<>> =>
      /\ \A e \in log : e.unit # u
      /\ units[u].pc = "done" =>
           units[u].outcome.status = "err" /\ units[u].outcome.err.kind = "Config"
      /\ run_pc = "done" => result.status # "panic"

------------------------------------------------------------------------------
(* Coordinates without a repo                                               *)

\* Source s of index item u names no repo and the job has no default.
SourceNoRepo(u, s) ==
  /\ IsIndexUnit(u)
  /\ s \in DOMAIN units[u].tp.sources
  /\ units[u].tp.sources[s].repo = NONE
  /\ to_push.repo = NONE

TargetsResolve(u) ==
  \A k \in DOMAIN units[u].tp.targets :
    units[u].tp.targets[k].repo # NONE \/ to_push.repo # NONE

\* The requests source future s of unit u has sent.
TaskRequests(u, s) == {e \in log : e.unit = u /\ e.source = s}

(* C11: on the index path a source that names no repo, the job having no    *)
(* default, sends no request and ends with the configuration error "source  *)
(* repo not set"; its sibling sources are not held up by it: one that is    *)
(* not over can step, and one that is over and was answered well all along  *)
(* has sent its two GETs and ended Ok.                                      *)
C11_SourceWithoutRepo ==
  \A u \in DOMAIN units : \A s \in DOMAIN units[u].tasks :
    IF SourceNoRepo(u, s)
    THEN /\ TaskRequests(u, s) = {}
         /\ units[u].tasks[s].pc \in {"manifest", "done"}
         /\ units[u].tasks[s].pc = "done" =>
              units[u].tasks[s].result = Failed(Err("Config", "source repo not set"))
    ELSE (\E r \in DOMAIN units[u].tasks : SourceNoRepo(u, r)) =>
           /\ units[u].pc = "sources" /\ units[u].tasks[s].pc # "done" =>
                ENABLED TaskStep(u, s)
           /\ /\ units[u].tasks[s].pc = "done"
              /\ TargetsResolve(u)
              /\ \A e \in TaskRequests(u, s) : CleanAnswer(e)
              => /\ units[u].tasks[s].result = Succeeded
                 /\ \E e \in TaskRequests(u, s) : e.what = "manifests" /\ e.verb = "GET"
                 /\ \E e \in TaskRequests(u, s) : e.what = "blobs"

\* A source without a repo has failed, having sent nothing, and its sibling
\* has fetched its manifest and its config since and ended Ok.
C11_Witness ==
  \E u \in DOMAIN units : \E s \in DOMAIN units[u].tasks : \E r \in DOMAIN units[u].tasks :
    /\ SourceNoRepo(u, s)
    /\ units[u].tasks[s].result = Failed(Err("Config", "source repo not set"))
    /\ TaskRequests(u, s) = {}
    /\ r # s
    /\ units[u].tasks[r].result = Succeeded
    /\ Cardinality(TaskRequests(u, r)) = 2

\* A coordinate of unit u's item names no repo and the job has no default.
ItemNoRepo(u) ==
  /\ to_push.repo = NONE
  /\ \/ \E s \in DOMAIN units[u].tp.sources : units[u].tp.sources[s].repo = NONE
     \/ \E k \in DOMAIN units[u].tp.targets : units[u].tp.targets[k].repo = NONE

(* C12: a unit, add_tag or push_manifest, whose item has a source or a      *)
(* target that resolves to no repo sends no request at all, no GET and no   *)
(* PUT, and ends with a configuration error (stated for the runs without a  *)
(* fault).                                                                  *)
C12_NoRequestWithoutRepo ==
  \A u \in DOMAIN units :
    faults = 0 /\ ItemNoRepo(u) =>
      /\ \A e \in log : e.unit # u
      /\ units[u].pc = "done" =>
           units[u].outcome.status = "err" /\ units[u].outcome.err.kind = "Config"

------------------------------------------------------------------------------
(* The retag round trip                                                     *)

\* The GET of add_tag of unit u, once sent.
RetagGets(u) == {e \in log : e.unit = u /\ e.source = 0 /\ e.verb = "GET"}

\* This step is the one in which the registry accepts add_tag's PUT of unit u.
RetagStored(u) ==
  /\ IsRetagUnit(u)
  /\ units[u].pc = "put"
  /\ units'[u].pc = "done"
  /\ units'[u].outcome.status = "ok"

\* What add_tag is about to PUT is what its GET was answered with, and the
\* source's (repo, name) of that registry holds it with that content type.
C13_SourceHeld ==
  \A u \in DOMAIN units :
    IsRetagUnit(u) /\ units[u].pc = "put" =>
      LET source == PopSource(units[u].tp)
          src_repo == resolve(source.repo, to_push.repo)
      IN /\ \E g \in RetagGets(u) :
              /\ g.repo = src_repo /\ g.name = source.name /\ g.ref = TagRef(source.tag)
              /\ g.res.body = units[u].manifest_raw
              /\ g.res.ctype = units[u].content_type
         /\ ManifestRow(units[u].region, src_repo, source.name,
                        units[u].manifest_raw, units[u].content_type) \in manifests

\* The step that retags: the target then answers a GET with the bytes and
\* the content type fetched from the source, and no other tag has moved.
C13_Step ==
  \A u \in DOMAIN units :
    RetagStored(u) =>
      LET unit == units[u]
          target == PopTarget(unit.tp)
          tar_repo == resolve(target.repo, to_push.repo)
      IN /\ GetManifest(unit.region, tar_repo, target.name, target.tag)'
              = Response(200, unit.content_type, unit.manifest_raw)
         /\ tags' \ TagRows(unit.region, tar_repo, target.name, target.tag)'
              = tags \ TagRows(unit.region, tar_repo, target.name, target.tag)

(* C13: a retag that succeeds leaves the target answering a GET with        *)
(* exactly the bytes and the content type add_tag fetched from the source,  *)
(* which the source's registry holds; the content type is the one of the    *)
(* source's response; the step moves the target's tag and no other, so the  *)
(* source coordinate is unchanged.                                          *)
C13_RetagRoundTrip == []C13_SourceHeld /\ [][C13_Step]_vars

\* A retag of the amd64 image, served as a Docker manifest, has succeeded:
\* the target answers with those bytes as a Docker manifest and the source's
\* tag holds what it held at the start.
C13_Witness ==
  \E u \in DOMAIN units :
    LET unit == units[u]
        source == PopSource(unit.tp)
        target == PopTarget(unit.tp)
    IN /\ IsRetagUnit(u)
       /\ unit.outcome.status = "ok"
       /\ unit.tp.targets # <<>>
       /\ source # target
       /\ GetManifest(unit.region, resolve(target.repo, to_push.repo), target.name, target.tag)
            = Response(200, DOCKER_MIME, ManAmd)
       /\ GetManifest(unit.region, resolve(source.repo, to_push.repo), source.name, source.tag)
            = Response(200, DOCKER_MIME, ManAmd)
       /\ TagRows(unit.region, resolve(source.repo, to_push.repo), source.name, source.tag)
            \subseteq InitTags

------------------------------------------------------------------------------
(* The manifest list                                                        *)

\* Entry en is made of what source future s of unit u was answered: the
\* digest and the length of the manifest bytes fetched, and the platform of
\* the config blob fetched, which hashes to the digest the manifest declares.
EntryOfSource(en, u, s) ==
  \E g \in TaskRequests(u, s) : \E b \in TaskRequests(u, s) :
    /\ g.verb = "GET" /\ g.what = "manifests" /\ Answered(g)
    /\ g.ref = TagRef(units[u].tp.sources[s].tag)
    /\ g.name = units[u].tp.sources[s].name
    /\ b.verb = "GET" /\ b.what = "blobs" /\ Answered(b)
    /\ b.ref = DigestRef(g.res.body.config.digest)
    /\ calc_digest(b.res.body) = g.res.body.config.digest
    /\ en.media_type = MANIFEST_MIME
    /\ en.digest = calc_digest(g.res.body)
    /\ en.size = BytesLen(g.res.body)
    /\ en.platform = [architecture |-> b.res.body.architecture,
                      os |-> b.res.body.os,
                      variant |-> b.res.body.variant]

(* C14: every manifest list push_manifest sends has schemaVersion 2, the    *)
(* index media type and as many entries as the item has sources, matched    *)
(* one to one: an entry's digest is the one recomputed over the manifest    *)
(* bytes fetched for its source, its size their length, and its platform    *)
(* the architecture, os and variant of that source's config blob, which     *)
(* hashes to the digest the manifest declares.                              *)
C14_IndexWellFormed ==
  \A u \in DOMAIN units : \A e \in IndexPuts(u) :
    LET entries == e.body.manifests
        n == Len(units[u].tp.sources)
    IN /\ e.body.schema_version = 2
       /\ e.body.media_type = MANIFEST_LIST_MIME
       /\ Len(entries) = n
       /\ n > 0 =>
            \E p \in Permutations(1..n) :
              \A i \in 1..n : EntryOfSource(entries[i], u, p[i])

\* A list of two entries is stored: an amd64 image of 7 bytes without a
\* variant and an arm64 image of 9 bytes of variant v8.
C14_Witness ==
  \E u \in DOMAIN units : \E e \in IndexPuts(u) :
    /\ e.stored
    /\ Len(e.body.manifests) = 2
    /\ \E i \in 1..2 : \E j \in 1..2 :
         /\ e.body.manifests[i].platform =
              [architecture |-> "amd64", os |-> "linux", variant |-> NONE]
         /\ e.body.manifests[i].size = 7
         /\ e.body.manifests[i].digest = calc_digest(ManAmd)
         /\ e.body.manifests[j].platform =
              [architecture |-> "arm64", os |-> "linux", variant |-> "v8"]
         /\ e.body.manifests[j].size = 9
         /\ e.body.manifests[j].digest = calc_digest(ManArm)

(* C15: the entries of every manifest list push_manifest sends stand in the *)
(* order of the item's sources, entry i made of what source i was answered, *)
(* in whatever order the source futures ran and ended.                      *)
C15_EntriesInSourceOrder ==
  \A u \in DOMAIN units : \A e \in IndexPuts(u) :
    /\ Len(e.body.manifests) = Len(units[u].tp.sources)
    /\ \A i \in DOMAIN e.body.manifests : EntryOfSource(e.body.manifests[i], u, i)

\* The future of the second source ended before the one of the first, and
\* the list stored names the first source's image first.
C15_Witness ==
  \E u \in DOMAIN units : \E e \in IndexPuts(u) :
    /\ e.stored
    /\ units[u].finished = <<2, 1>>
    /\ e.body.manifests[1].digest = calc_digest(ManAmd)
    /\ e.body.manifests[2].digest = calc_digest(ManArm)
    /\ units[u].tp.sources[1].tag = "v1-amd64"

------------------------------------------------------------------------------
(* Replication                                                              *)

\* The targets of unit u that are another (repo, name) than source s.
Differing(u, s) ==
  LET src == units[u].tp.sources[s] IN
  {k \in DOMAIN units[u].tp.targets :
     \/ resolve(units[u].tp.targets[k].repo, to_push.repo) # resolve(src.repo, to_push.repo)
     \/ units[u].tp.targets[k].name # src.name}

\* The replicating PUTs source future s of unit u has sent for target k.
PutsFor(u, s, k) ==
  {e \in ReplicatePuts(u, s) :
     /\ e.repo = resolve(units[u].tp.targets[k].repo, to_push.repo)
     /\ e.name = units[u].tp.targets[k].name}

(* C16: a source future of push_manifest sends a replicating PUT only for a *)
(* target whose resolved repo or whose name differs from the source's, and  *)
(* none for a target where both coincide; a source future that ended Ok has *)
(* sent one accepted PUT for each differing target and no other PUT.        *)
C16_ReplicateIffDiffers ==
  \A u \in DOMAIN units : \A s \in DOMAIN units[u].tasks :
    /\ \A e \in ReplicatePuts(u, s) : \E k \in Differing(u, s) : e \in PutsFor(u, s, k)
    /\ \A k \in DOMAIN units[u].tp.targets :
         k \notin Differing(u, s) => PutsFor(u, s, k) = {}
    /\ units[u].tasks[s].result = Succeeded =>
         /\ \A k \in Differing(u, s) : \E e \in PutsFor(u, s, k) : e.stored
         /\ Cardinality(ReplicatePuts(u, s)) = Cardinality(Differing(u, s))

\* A source future has ended Ok with one target in place, for which it has
\* sent nothing, and one target elsewhere, for which it has sent its PUT.
C16_Witness ==
  \E u \in DOMAIN units : \E s \in DOMAIN units[u].tasks :
    /\ units[u].tasks[s].result = Succeeded
    /\ \E k \in DOMAIN units[u].tp.targets :
         k \notin Differing(u, s) /\ PutsFor(u, s, k) = {}
    /\ \E k \in Differing(u, s) : \E e \in PutsFor(u, s, k) : e.stored

\* This step is one in which the registry accepts a replicating PUT.
ReplicateStored(e) ==
  /\ e \in log' \ log
  /\ e.source # 0
  /\ e.verb = "PUT"
  /\ e.stored

\* Every replicating PUT carries the bytes its source future fetched, is
\* addressed by the digest computed over them and not by a tag, and declares
\* the OCI manifest type.
C17_Verbatim ==
  \A u \in DOMAIN units : \A s \in DOMAIN units[u].tasks : \A e \in ReplicatePuts(u, s) :
    /\ "tag" \notin DOMAIN e.ref
    /\ e.ref = DigestRef(calc_digest(e.body))
    /\ e.ctype = MANIFEST_MIME
    /\ \E g \in TaskRequests(u, s) :
         /\ g.verb = "GET" /\ g.what = "manifests" /\ Answered(g)
         /\ g.res.body = e.body

\* An accepted replicating PUT adds the bytes to what the target's
\* (repo, name) holds by digest and moves no tag; when the bytes are held
\* already the registry is left as it was.
C17_Step ==
  \A e \in log' \ log :
    ReplicateStored(e) =>
      LET row == ManifestRow(e.region, e.repo, e.name, e.body, MANIFEST_MIME) IN
      /\ tags' = tags
      /\ blobs' = blobs
      /\ manifests' = manifests \cup {row}
      /\ row \in manifests => manifests' = manifests

(* C17: a replicating PUT carries the source manifest's bytes as fetched,   *)
(* addressed by the digest recomputed over them and never by a tag; it adds *)
(* these bytes to the target's (repo, name) and changes nothing else, so a  *)
(* second replication of the same bytes to the same (repo, name) leaves the *)
(* registry as the first left it.                                           *)
C17_ReplicationIdempotent == []C17_Verbatim /\ [][C17_Step]_vars

\* The same bytes were replicated to the same (repo, name) twice, and the
\* registry holds them once.
C17_Witness ==
  \E e \in log : \E f \in log :
    /\ e # f
    /\ e.source # 0 /\ f.source # 0
    /\ e.verb = "PUT" /\ f.verb = "PUT"
    /\ e.stored /\ f.stored
    /\ e.region = f.region /\ e.repo = f.repo /\ e.name = f.name /\ e.body = f.body
    /\ Cardinality({m \in manifests : /\ m.region = e.region /\ m.repo = e.repo
                                      /\ m.name = e.name /\ m.bytes = e.body}) = 1

------------------------------------------------------------------------------
(* Publication                                                              *)

\* Another unit than u has stored something under this tag.
WrittenByOther(u, region, repo, name, tag) ==
  \E e \in log :
    /\ e.unit # u /\ e.stored
    /\ e.region = region /\ e.repo = repo /\ e.name = name /\ e.ref = TagRef(tag)

(* C18: an index item that ended Ok has had its list accepted under the tag *)
(* of every one of its targets, the same bytes each time and with the index *)
(* media type; each of these tags names that list, unless another unit has  *)
(* written the tag as well.                                                 *)
C18_PublishedUnderEveryTarget ==
  \A u \in DOMAIN units :
    IsIndexUnit(u) /\ units[u].outcome.status = "ok" =>
      /\ \A e \in IndexPuts(u) :
           e.body = units[u].manifest_list /\ e.ctype = MANIFEST_LIST_MIME
      /\ \A k \in DOMAIN units[u].tp.targets :
           LET t == units[u].tp.targets[k]
               tar_repo == resolve(t.repo, to_push.repo)
           IN /\ \E e \in IndexPuts(u) :
                   /\ e.stored /\ e.region = units[u].region
                   /\ e.repo = tar_repo /\ e.name = t.name /\ e.ref = TagRef(t.tag)
              /\ \/ GetManifest(units[u].region, tar_repo, t.name, t.tag)
                      = Response(200, MANIFEST_LIST_MIME, units[u].manifest_list)
                 \/ WrittenByOther(u, units[u].region, tar_repo, t.name, t.tag)

\* An index item with two targets has ended Ok and both tags name its list.
C18_Witness ==
  \E u \in DOMAIN units :
    /\ IsIndexUnit(u)
    /\ units[u].outcome.status = "ok"
    /\ Len(units[u].tp.targets) = 2
    /\ Len(units[u].manifest_list.manifests) = 2
    /\ \A k \in DOMAIN units[u].tp.targets :
         GetManifest(units[u].region, resolve(units[u].tp.targets[k].repo, to_push.repo),
                     units[u].tp.targets[k].name, units[u].tp.targets[k].tag)
           = Response(200, MANIFEST_LIST_MIME, units[u].manifest_list)

------------------------------------------------------------------------------
(* No rollback                                                              *)

\* What an accepted PUT stored is held: its bytes by digest, and the tag it
\* was sent to names them unless another accepted PUT went to that tag.
C19_Kept ==
  \A e \in log :
    /\ e.verb \in {"GET", "PUT"}
    /\ e.stored =>
         /\ ManifestRow(e.region, e.repo, e.name, e.body, e.ctype) \in manifests
         /\ "tag" \in DOMAIN e.ref =>
              \/ GetManifest(e.region, e.repo, e.name, e.ref.tag)
                   = Response(200, e.ctype, e.body)
              \/ \E f \in log :
                   /\ f # e /\ f.stored
                   /\ f.region = e.region /\ f.repo = e.repo /\ f.name = e.name
                   /\ f.ref = e.ref

\* No step takes a manifest or a blob away, and a tag changes only by an
\* accepted PUT to that very tag.
C19_Step ==
  /\ manifests \subseteq manifests'
  /\ blobs' = blobs
  /\ \A t \in tags \ tags' :
       \E e \in log' \ log :
         /\ e.verb = "PUT" /\ e.stored
         /\ e.region = t.region /\ e.repo = t.repo /\ e.name = t.name
         /\ e.ref = TagRef(t.tag)

------------------------------------------------------------------------------
(* Errors of the registry                                                   *)

\* How the future that sent request e has ended, or stands.
OutcomeOf(e) ==
  IF e.source = 0 THEN units[e.unit].outcome
  ELSE units[e.unit].tasks[e.source].result

\* The registry error for a response: its body when that is text, otherwise
\* a message with the status code.
RegistryError(res) ==
  Err("Registry",
      IF Utf8(res.body) THEN BodyText(res.body)
      ELSE "failed to retrieve error for " \o StatusText(res.status))

(* C20: every request, of push_manifest and of add_tag alike, that is       *)
(* answered with a status other than 2xx makes the future that sent it fail *)
(* with a registry error whose message is the body of the response when     *)
(* that is text and a message with the status code otherwise (stated for    *)
(* the runs without a fault).                                               *)
C20_RegistryErrorCarriesBody ==
  \A e \in log :
    faults = 0 /\ ~e.res.transport /\ ~is_success(e.res.status) =>
      OutcomeOf(e) = Failed(RegistryError(e.res))

------------------------------------------------------------------------------
(* Termination                                                              *)

\* The runtime keeps polling every future that can go on, and every request
\* is answered or fails: a step that can be taken is taken in the end.
FairSpec == Spec /\ WF_vars(Next)

\* run is over and every unit it was to spawn is.
RunEnded ==
  /\ run_pc = "done"
  /\ Len(units) = NumUnits
  /\ \A u \in DOMAIN units : units[u].pc = "done"

(* C21: in the end run has returned, Ok or with an error, and every unit it *)
(* spawned has finished with one outcome, success or an error; no unit is   *)
(* left waiting.                                                            *)
C21_EveryUnitFinishes ==
  <>(/\ RunEnded
     /\ result.status \in {"ok", "err"}
     /\ \A u \in DOMAIN units : units[u].outcome.status \in {"ok", "err"})

------------------------------------------------------------------------------
(* The units run spawns                                                     *)

(* C22: a unit runs add_tag exactly when its item has one source, and       *)
(* push_manifest exactly when its item has two sources or more.             *)
C22_PathSelection ==
  \A u \in DOMAIN units :
    /\ IsRetagUnit(u) <=> Len(units[u].tp.sources) = 1
    /\ IsIndexUnit(u) <=> Len(units[u].tp.sources) >= 2

\* The units spawned for item i in the region at position r of the regions.
UnitsOf(r, i) ==
  {u \in DOMAIN units :
     /\ u = (r - 1) * Len(to_push.items) + i
     /\ units[u].region = regions[r]
     /\ units[u].item = i
     /\ units[u].tp = to_push.items[i]}

\* Once all are spawned there is one unit per region and item, and when run
\* is over each of them has its outcome.
C23_OnePerPair ==
  /\ Len(units) <= Len(regions) * Len(to_push.items)
  /\ run_pc # "spawn" =>
       /\ Len(units) = Len(regions) * Len(to_push.items)
       /\ \A r \in DOMAIN regions : \A i \in DOMAIN to_push.items :
            Cardinality(UnitsOf(r, i)) = 1
       /\ \A u \in DOMAIN units :
            \E r \in DOMAIN regions : \E i \in DOMAIN to_push.items : u \in UnitsOf(r, i)
  /\ run_pc = "done" =>
       \A u \in DOMAIN units : units[u].outcome.status \in {"ok", "err", "panic"}

\* A unit's outcome, once it has one, stays the one it is.
C23_OutcomeOnce ==
  \A u \in DOMAIN units :
    units[u].outcome.status # "pending" => units'[u].outcome = units[u].outcome

(* C23: run spawns one unit for every pair of a region and an item, R * N   *)
(* units for R regions and N items and no other, and collects one outcome   *)
(* of each, which never changes once it is there.                           *)
C23_OncePerRegion == []C23_OnePerPair /\ [][C23_OutcomeOnce]_vars

\* run is over with two regions and two items: four units, four outcomes.
C23_Witness ==
  /\ run_pc = "done"
  /\ Len(regions) = 2
  /\ Len(to_push.items) = 2
  /\ Len(units) = 4
  /\ \A u \in DOMAIN units : units[u].outcome.status \in {"ok", "err"}
  /\ \E u \in DOMAIN units : \E v \in DOMAIN units :
       units[u].region # units[v].region /\ units[u].item = units[v].item

------------------------------------------------------------------------------
(* The pipeline of one source                                               *)

\* The request source future s of unit u sent as its n-th.
NthRequest(u, s, n) == {e \in TaskRequests(u, s) : e.n = n}

\* The manifest of source s was fetched and parsed.
ManifestFetched(u, s) ==
  \E g \in NthRequest(u, s, 1) :
    g.verb = "GET" /\ g.what = "manifests" /\ CleanAnswer(g)

\* The config blob of source s was fetched, hashes to the declared digest
\* and parses.
ConfigVerified(u, s) ==
  \E g \in NthRequest(u, s, 1) : \E b \in NthRequest(u, s, 2) :
    /\ b.verb = "GET" /\ b.what = "blobs" /\ CleanAnswer(b)
    /\ b.ref = DigestRef(g.res.body.config.digest)

(* C24: a source future does its steps in order: its first request is the   *)
(* manifest GET, its second, sent only once the manifest was fetched and    *)
(* parsed, the config blob GET, and every later one a replicating PUT, sent *)
(* only once the config blob was verified and parsed; the entry exists only *)
(* then, and the future ends Ok only with its entry. A source that fails a  *)
(* step before has sent no replicating PUT.                                 *)
C24_PipelineInOrder ==
  \A u \in DOMAIN units : \A s \in DOMAIN units[u].tasks :
    LET task == units[u].tasks[s] IN
    /\ \A e \in TaskRequests(u, s) :
         /\ e.n = 1 <=> (e.verb = "GET" /\ e.what = "manifests")
         /\ e.n = 2 <=> (e.verb = "GET" /\ e.what = "blobs")
         /\ e.n >= 3 <=> e.verb = "PUT"
         /\ e.n >= 2 => ManifestFetched(u, s)
         /\ e.n >= 3 => ConfigVerified(u, s)
         /\ e.n >= 2 => \A m \in 1..(e.n - 1) :
              \E f \in NthRequest(u, s, m) : Answered(f)
    /\ task.pc = "config" => ManifestFetched(u, s) /\ ~ConfigVerified(u, s)
    /\ task.pc = "replicate" => ConfigVerified(u, s)
    /\ task.list # NoEntry <=> ConfigVerified(u, s)
    /\ task.result = Succeeded => task.list # NoEntry
    /\ ~ConfigVerified(u, s) => ReplicatePuts(u, s) = {}

\* A source has replicated after its two GETs, and another source, whose
\* config blob failed the digest check, has ended having sent no PUT.
C24_Witness ==
  /\ \E u \in DOMAIN units : \E s \in DOMAIN units[u].tasks :
       /\ units[u].tasks[s].result = Succeeded
       /\ \E e \in NthRequest(u, s, 3) : e.verb = "PUT" /\ e.stored
  /\ \E e \in log :
       /\ Tampered(e)
       /\ units[e.unit].tasks[e.source].pc = "done"
       /\ ReplicatePuts(e.unit, e.source) = {}

(* C25: a source future that failed stops none of its siblings: a sibling   *)
(* that is not over can take its next step, a replicating PUT included, and *)
(* a sibling that is over and was answered well has sent its accepted PUT   *)
(* for every differing target; what it replicated is held by the target's   *)
(* (repo, name) although the item publishes no list.                        *)
C25_SiblingsStillReplicate ==
  \A u \in DOMAIN units :
    IsIndexUnit(u) /\ SourceFailed(u) =>
      /\ IndexPuts(u) = {}
      /\ \A s \in DOMAIN units[u].tasks :
           LET task == units[u].tasks[s] IN
           /\ task.pc # "done" => ENABLED TaskStep(u, s)
           /\ task.pc = "replicate" => ENABLED SourceReplicate(u, s)
           /\ /\ task.pc = "done"
              /\ TargetsResolve(u)
              /\ resolve(task.ti.repo, to_push.repo) # NONE
              /\ \A e \in TaskRequests(u, s) : CleanAnswer(e)
              => /\ task.result = Succeeded
                 /\ \A k \in Differing(u, s) : \E e \in PutsFor(u, s, k) :
                      /\ e.stored
                      /\ HoldsDigest(e.region, e.repo, e.name, task.manifest_digest)

\* run is over: a source failed first, its sibling replicated its manifest
\* to the target's (repo, name) all the same, and the target's tag, under
\* which the list was to be published, does not exist.
C25_Witness ==
  /\ run_pc = "done"
  /\ \E u \in DOMAIN units : \E s \in DOMAIN units[u].tasks :
       /\ IsIndexUnit(u)
       /\ units[u].outcome.status = "err"
       /\ units[u].finished # <<>>
       /\ units[u].finished[1] # s
       /\ units[u].tasks[units[u].finished[1]].result.status = "err"
       /\ units[u].tasks[s].result = Succeeded
       /\ \E k \in Differing(u, s) :
            LET t == units[u].tp.targets[k]
                tar_repo == resolve(t.repo, to_push.repo)
            IN /\ HoldsDigest(units[u].region, tar_repo, t.name,
                              units[u].tasks[s].manifest_digest)
               /\ GetManifest(units[u].region, tar_repo, t.name, t.tag).status = 404
       /\ IndexPuts(u) = {}

------------------------------------------------------------------------------
(* No retry                                                                 *)

\* The requests of unit u itself: add_tag's GET and PUT, push_manifest's
\* publishing PUTs.
UnitRequests(u) == {e \in log : e.unit = u /\ e.source = 0}

\* The targets of unit u at this (repo, name).
TargetsAt(u, repo, name) ==
  {k \in DOMAIN units[u].tp.targets :
     /\ resolve(units[u].tp.targets[k].repo, to_push.repo) = repo
     /\ units[u].tp.targets[k].name = name}

\* A request that failed is the last its future has sent.
LastIfFailed(reqs) ==
  \A e \in reqs : ~Answered(e) => \A f \in reqs : f.n <= e.n

(* C26: no request is sent twice: a source future sends one manifest GET    *)
(* and one blob GET at most and no more replicating PUTs to a (repo, name)  *)
(* than the item has targets there; push_manifest sends no more publishing  *)
(* PUTs to a tag than the item has targets of that tag; add_tag sends one   *)
(* GET and one PUT at most; and a request that failed, by transport or by   *)
(* status, is the last request of the future that sent it.                  *)
C26_NoRetry ==
  \A u \in DOMAIN units :
    /\ LastIfFailed(UnitRequests(u))
    /\ \A e \in UnitRequests(u) :
         Cardinality({f \in UnitRequests(u) :
                        /\ f.verb = e.verb /\ f.repo = e.repo /\ f.name = e.name
                        /\ f.ref = e.ref})
           <= (IF e.verb = "GET" \/ IsRetagUnit(u) THEN 1
               ELSE Cardinality({k \in TargetsAt(u, e.repo, e.name) :
                                   TagRef(units[u].tp.targets[k].tag) = e.ref}))
    /\ \A s \in DOMAIN units[u].tasks :
         /\ LastIfFailed(TaskRequests(u, s))
         /\ \A e \in TaskRequests(u, s) :
              Cardinality({f \in TaskRequests(u, s) :
                             /\ f.verb = e.verb /\ f.what = e.what
                             /\ f.repo = e.repo /\ f.name = e.name})
                <= (IF e.verb = "GET" THEN 1
                    ELSE Cardinality(TargetsAt(u, e.repo, e.name)))

\* run is over: a replicating PUT failed, nothing was sent after it by its
\* source future, and the item failed.
C26_Witness ==
  /\ run_pc = "done"
  /\ \E e \in log :
       /\ e.source # 0 /\ e.verb = "PUT" /\ ~Answered(e)
       /\ Cardinality(ReplicatePuts(e.unit, e.source)) = 1
       /\ units[e.unit].tasks[e.source].result.status = "err"
       /\ units[e.unit].outcome.status = "err"

\* What the tag of a coordinate named before the run.
InitRows(region, repo, name, tag) ==
  {r \in InitTags : r.region = region /\ r.repo = repo /\ r.name = name /\ r.tag = tag}

\* The k-th target of unit u names the list of u.
TargetHoldsList(u, k) ==
  LET t == units[u].tp.targets[k] IN
  GetManifest(units[u].region, resolve(t.repo, to_push.repo), t.name, t.tag)
    = Response(200, MANIFEST_LIST_MIME, units[u].manifest_list)

\* The k-th target of unit u names what it named before the run.
TargetUntouched(u, k) ==
  LET t == units[u].tp.targets[k]
      tar_repo == resolve(t.repo, to_push.repo)
  IN TagRows(units[u].region, tar_repo, t.name, t.tag)
       = InitRows(units[u].region, tar_repo, t.name, t.tag)

TargetWrittenByOther(u, k) ==
  LET t == units[u].tp.targets[k] IN
  WrittenByOther(u, units[u].region, resolve(t.repo, to_push.repo), t.name, t.tag)

(* C27: push_manifest publishes target after target: its n-th PUT of the    *)
(* list goes to the n-th target and is sent only when the PUTs before were  *)
(* accepted. When the PUT for target k fails the unit ends with that error, *)
(* the targets before k name the list, and target k and those after it name *)
(* what they named before (a tag another unit has written aside).           *)
C27_PublishStopsAtFirstFailure ==
  \A u \in DOMAIN units : \A e \in IndexPuts(u) :
    LET t == units[u].tp.targets[e.n] IN
    /\ e.n \in DOMAIN units[u].tp.targets
    /\ e.repo = resolve(t.repo, to_push.repo) /\ e.name = t.name /\ e.ref = TagRef(t.tag)
    /\ \A f \in IndexPuts(u) : f.n < e.n => f.stored
    /\ \A j \in 1..(e.n - 1) : \E f \in IndexPuts(u) : f.n = j
    /\ ~e.stored =>
         /\ units[u].pc = "done"
         /\ units[u].outcome = Failed(get_bytes(e.res).err)
         /\ \A j \in DOMAIN units[u].tp.targets :
              IF j < e.n THEN TargetHoldsList(u, j) \/ TargetWrittenByOther(u, j)
              ELSE TargetUntouched(u, j) \/ TargetWrittenByOther(u, j)

\* The PUT for the second target failed: the first target names the list,
\* the second names nothing, as before, and the unit has failed.
C27_Witness ==
  \E u \in DOMAIN units : \E e \in IndexPuts(u) :
    /\ e.n = 2
    /\ ~e.stored
    /\ units[u].outcome.status = "err"
    /\ TargetHoldsList(u, 1)
    /\ TargetUntouched(u, 2)
    /\ ~TargetHoldsList(u, 2)

\* The GET of add_tag was not answered with a manifest and its type.
RetagFetchFailed(e) ==
  /\ IsRetagUnit(e.unit)
  /\ e.verb = "GET"
  /\ (e.res.transport \/ ~is_success(e.res.status) \/ e.res.ctype = NONE)

\* The unit has failed on its GET and has sent no PUT.
C28_NoPutAfterFailedFetch ==
  \A e \in log :
    RetagFetchFailed(e) =>
      /\ units[e.unit].pc = "done"
      /\ units[e.unit].outcome.status = "err"
      /\ units[e.unit].outcome.err.kind =
           (IF e.res.transport THEN "Transport"
            ELSE IF e.res.ctype = NONE THEN "NoContentType" ELSE "Status")
      /\ \A f \in log : f.unit = e.unit => f.verb = "GET"

\* The step in which add_tag's GET fails changes nothing in any registry.
C28_Step ==
  (\E e \in log' \ log : RetagFetchFailed(e)) =>
    /\ tags' = tags
    /\ manifests' = manifests
    /\ blobs' = blobs

(* C28: when add_tag's GET of the source fails, by transport, by a status   *)
(* other than 2xx or by a response without a Content-Type, the unit ends    *)
(* with an error and sends no PUT: the step changes no registry and the     *)
(* unit takes no step after it, so the target names what it named before.   *)
C28_RetagFailureWritesNothing ==
  []C28_NoPutAfterFailedFetch /\ [][C28_Step]_vars

\* run is over: a retag failed on a 404 and its target, which no unit has
\* written, names nothing, as before.
C28_Witness ==
  /\ run_pc = "done"
  /\ \E e \in log :
       /\ RetagFetchFailed(e)
       /\ e.res.status = 404
       /\ units[e.unit].outcome.status = "err"
       /\ LET t == PopTarget(units[e.unit].tp)
              tar_repo == resolve(t.repo, to_push.repo)
          IN /\ TagRows(units[e.unit].region, tar_repo, t.name, t.tag) = {}
             /\ InitRows(units[e.unit].region, tar_repo, t.name, t.tag) = {}

------------------------------------------------------------------------------
(* What a run without faults is to leave, told from the job and the         *)
(* registries' content at the start alone                                   *)

Coord(ti) == <<resolve(ti.repo, to_push.repo), ti.name, ti.tag>>

ItemCoords(i) ==
  {Coord(to_push.items[i].sources[s]) : s \in DOMAIN to_push.items[i].sources}
    \cup {Coord(to_push.items[i].targets[k]) : k \in DOMAIN to_push.items[i].targets}

\* No target of an item is a source or a target of another item.
NoOverlap ==
  \A i \in DOMAIN to_push.items : \A j \in DOMAIN to_push.items :
    i # j => \A k \in DOMAIN to_push.items[i].targets :
               Coord(to_push.items[i].targets[k]) \notin ItemCoords(j)

\* The first target that resolves to no repo, Len + 1 when all resolve.
FirstUnresolved(targets) ==
  IF \A k \in DOMAIN targets : resolve(targets[k].repo, to_push.repo) # NONE
  THEN Len(targets) + 1
  ELSE CHOOSE k \in DOMAIN targets :
         /\ resolve(targets[k].repo, to_push.repo) = NONE
         /\ \A j \in 1..(k - 1) : resolve(targets[j].repo, to_push.repo) # NONE

SeqTask(res, entry, copies) == [result |-> res, list |-> entry, copies |-> copies]

\* Source s of item tp in a region, run alone against the initial content.
SeqSource(region, tp, s) ==
  LET ti == tp.sources[s]
      src_repo == resolve(ti.repo, to_push.repo)
      rows == InitRows(region, src_repo, ti.name, ti.tag)
      m == (CHOOSE r \in rows : TRUE).bytes
      brs == {b \in InitBlobs : /\ b.region = region /\ b.repo = src_repo
                                /\ b.name = ti.name /\ b.digest = m.config.digest}
      c == (CHOOSE b \in brs : TRUE).bytes
      n == FirstUnresolved(tp.targets)
      copies == {ManifestRow(region, resolve(tp.targets[k].repo, to_push.repo),
                             tp.targets[k].name, m, MANIFEST_MIME) :
                   k \in {k \in 1..(n - 1) :
                            needs_copy(resolve(tp.targets[k].repo, to_push.repo), src_repo,
                                       tp.targets[k].name, ti.name)}}
  IN IF src_repo = NONE
     THEN SeqTask(Failed(Err("Config", "source repo not set")), NoEntry, {})
     ELSE IF rows = {}
     THEN SeqTask(Failed(Err("Registry", "MANIFEST_UNKNOWN")), NoEntry, {})
     ELSE IF ~OciManifestParses(m)
     THEN SeqTask(Failed(Err("Parse", "manifest")), NoEntry, {})
     ELSE IF brs = {}
     THEN SeqTask(Failed(Err("Registry", "BLOB_UNKNOWN")), NoEntry, {})
     ELSE IF calc_digest(c) # m.config.digest
     THEN SeqTask(Failed(Err("DigestMismatch", "config digest does not match")), NoEntry, {})
     ELSE IF ~OciConfigParses(c)
     THEN SeqTask(Failed(Err("Parse", "config")), NoEntry, {})
     ELSE SeqTask(IF n <= Len(tp.targets)
                  THEN Failed(Err("Config", "target repo not set")) ELSE Succeeded,
                  OciManifestListManifest(m, calc_digest(m), c), copies)

SeqResult(outcome, writes, copies) ==
  [outcome |-> outcome, writes |-> writes, copies |-> copies]

\* add_tag of item tp in a region, run alone against the initial content.
SeqRetag(region, tp) ==
  LET source == PopSource(tp)
      target == PopTarget(tp)
      src_repo == resolve(source.repo, to_push.repo)
      tar_repo == resolve(target.repo, to_push.repo)
      rows == InitRows(region, src_repo, source.name, source.tag)
      row == CHOOSE r \in rows : TRUE
  IN IF tp.targets = <<>> THEN SeqResult(Panicked, {}, {})
     ELSE IF src_repo = NONE
     THEN SeqResult(Failed(Err("Config", "source repo not set")), {}, {})
     ELSE IF tar_repo = NONE
     THEN SeqResult(Failed(Err("Config", "target repo not set")), {}, {})
     ELSE IF rows = {}
     THEN SeqResult(Failed(Err("Status", StatusText(404))), {}, {})
     ELSE SeqResult(Succeeded,
                    {TagRow(region, tar_repo, target.name, target.tag, row.bytes, row.ctype)},
                    {})

\* push_manifest of item tp in a region, run alone against the initial content.
SeqIndex(region, tp) ==
  LET srcs == [s \in DOMAIN tp.sources |-> SeqSource(region, tp, s)]
      c == collect([s \in DOMAIN tp.sources |-> srcs[s].result])
      copies == UNION {srcs[s].copies : s \in DOMAIN tp.sources}
      list == OciManifestList([s \in DOMAIN tp.sources |-> srcs[s].list])
      n == FirstUnresolved(tp.targets)
  IN IF c.status # "ok" THEN SeqResult(Failed(c.err), {}, copies)
     ELSE SeqResult(IF n <= Len(tp.targets)
                    THEN Failed(Err("Config", "target repo not set")) ELSE Succeeded,
                    {TagRow(region, resolve(tp.targets[k].repo, to_push.repo),
                            tp.targets[k].name, tp.targets[k].tag, list, MANIFEST_LIST_MIME) :
                       k \in 1..(n - 1)},
                    copies)

SeqUnit(u) ==
  LET tp == to_push.items[ItemOf(u)] IN
  IF PathOf(tp) = "add_tag" THEN SeqRetag(RegionOf(u), tp) ELSE SeqIndex(RegionOf(u), tp)

SeqWrites == UNION {SeqUnit(u).writes : u \in 1..NumUnits}

ExpectedTags ==
  {t \in InitTags :
     ~\E w \in SeqWrites : /\ w.region = t.region /\ w.repo = t.repo
                            /\ w.name = t.name /\ w.tag = t.tag}
    \cup SeqWrites

ExpectedManifests ==
  InitManifests
    \cup {ManifestRow(w.region, w.repo, w.name, w.bytes, w.ctype) : w \in SeqWrites}
    \cup UNION {SeqUnit(u).copies : u \in 1..NumUnits}

\* Without overlap a run without faults ends in the one state the job and
\* the initial content determine.
C29_Deterministic ==
  run_pc = "done" /\ faults = 0 /\ NoOverlap =>
    /\ tags = ExpectedTags
    /\ manifests = ExpectedManifests
    /\ blobs = InitBlobs
    /\ \A u \in DOMAIN units : units[u].outcome = SeqUnit(u).outcome
    /\ LET c == collect([u \in 1..NumUnits |-> SeqUnit(u).outcome])
       IN result.status = c.status /\ result.err = c.err

\* An accepted PUT to a tag makes the tag name what the PUT carried,
\* whatever it named: of two units that write one tag the later one wins.
C29_LastWriterWins ==
  \A e \in log' \ log :
    e.stored /\ "tag" \in DOMAIN e.ref =>
      GetManifest(e.region, e.repo, e.name, e.ref.tag)' = Response(200, e.ctype, e.body)

(* C29: when no target of an item is a source or a target of another item,  *)
(* every interleaving of a run without faults ends with the same registry   *)
(* content and the same outcome of every unit, those the job and the        *)
(* initial content determine; when two units target one tag, the tag ends   *)
(* up naming what the later of the two PUTs carried, so that the final      *)
(* state depends on the interleaving.                                       *)
C29_DeterminismUnderInterleaving ==
  []C29_Deterministic /\ [][C29_LastWriterWins]_vars

\* Two units of one region are both about to PUT different bytes under the
\* same tag: either can go last.
C29_Witness ==
  \E u \in DOMAIN units : \E v \in DOMAIN units :
    /\ u # v
    /\ faults = 0
    /\ ~NoOverlap
    /\ units[u].region = units[v].region
    /\ IsRetagUnit(u) /\ IsRetagUnit(v)
    /\ units[u].pc = "put" /\ units[v].pc = "put"
    /\ Coord(PopTarget(units[u].tp)) = Coord(PopTarget(units[v].tp))
    /\ units[u].manifest_raw # units[v].manifest_raw
    /\ ENABLED AddTagPut(u)
    /\ ENABLED AddTagPut(v)

------------------------------------------------------------------------------
(* Regions                                                                  *)

\* The rows of the registries of the regions other than r.
Elsewhere(rows, r) == {x \in rows : x.region # r}

\* Every request of a unit went to the registry of the region the unit was
\* spawned for.
C30_OwnRegion ==
  \A e \in log :
    /\ e.unit \in DOMAIN units
    /\ e.region = RegionOf(e.unit)
    /\ units[e.unit].region = RegionOf(e.unit)

\* A step of a unit leaves the registries of the other regions as they are.
C30_Step ==
  \A e \in log' \ log :
    /\ Elsewhere(tags', RegionOf(e.unit)) = Elsewhere(tags, RegionOf(e.unit))
    /\ Elsewhere(manifests', RegionOf(e.unit)) = Elsewhere(manifests, RegionOf(e.unit))
    /\ Elsewhere(blobs', RegionOf(e.unit)) = Elsewhere(blobs, RegionOf(e.unit))

\* Nothing changes in a registry but by a request.
C30_OnlyByRequest ==
  log' = log => tags' = tags /\ manifests' = manifests /\ blobs' = blobs

(* C30: a unit spawned for region r sends each of its requests, GET or PUT, *)
(* to the registry of r, and its steps leave the registries of every other  *)
(* region unchanged.                                                        *)
C30_RegionFrame == []C30_OwnRegion /\ [][C30_Step /\ C30_OnlyByRequest]_vars

\* run is over for two regions: the unit of the first has published its
\* list there, the unit of the second has failed, and the second region's
\* registry names what it named at the start.
C30_Witness ==
  /\ run_pc = "done"
  /\ Len(regions) = 2
  /\ \E e \in log : e.stored /\ e.region = regions[1] /\ IsIndexUnit(e.unit) /\ e.source = 0
  /\ \E e \in log : e.region = regions[2] /\ e.verb = "GET"
  /\ Elsewhere(tags, regions[1]) = Elsewhere(InitTags, regions[1])
  /\ Elsewhere(tags, regions[2]) # Elsewhere(InitTags, regions[2])

====
